---------------------------- MODULE Spec2Model ----------------------------
(***************************************************************************)
(* A model of smallsh (src/smallsh.c): the dispatch loop of main(), the    *)
(* SIGTSTP handler that toggles background_allowed, the tokenizer and      *)
(* directive parser (getArgs, parseArgs), the background-job registry      *)
(* (struct processArray) and the reaper (cleanupProcs).                    *)
(*                                                                         *)
(* C strings are sequences of one-character strings, C arrays are          *)
(* sequences whose element k+1 is the C element k, and the C ints used as  *)
(* booleans keep their values 0 and 1.                                     *)
(*                                                                         *)
(* The handler runs between statements of the main flow: every action of   *)
(* the main flow covers code in which the handler's variables are read or  *)
(* written at most once.  Out of the model's bounds: lines of more than    *)
(* MAX_NUMBER_ARGS words and words of ARBITRARY_MAX_WORD_LENGTH characters *)
(* or more (the code has no check for either).                             *)
(***************************************************************************)
EXTENDS Integers, Sequences, FiniteSets, TLC

\* ------------------------------------------------------------------ bounds
\* Longest input line (in characters) of the parser's specification.
MaxLineLen == 5
\* Pids 1..MaxRegPid of the registry's specification (above the capacity).
MaxRegPid == 12
\* Child pids 1..MaxPid the operating system hands out to the shell.
MaxPid == 2
\* SIGTSTP deliveries in one run.
MaxSignals == 3
\* SIGINT deliveries in one run.
MaxInterrupts == 1

\* -------------------------------------------------------- program constants
TRUE_ == 1
FALSE_ == 0
CD_CODE == 0
STATUS_CODE == 1
EXIT_CODE == 2
COMMENT_CODE == 3
\* createProcessArray: newProcesses->capacity = 10
InitCapacity == 10

\* The NULL pointer of char* args[]: no word equals it.
NULL == <<"NULL">>
\* The characters input lines are made of.
LineChars == {" ", "\t", "<", ">", "&", "$", "a"}
\* sprintf("%d", getpid()): the interpreter's pid in decimal.
ShellPidString == <<"4", "2">>

Str_cd == <<"c", "d">>
Str_status == <<"s", "t", "a", "t", "u", "s">>
Str_exit == <<"e", "x", "i", "t">>

\* ------------------------------------------------------------- tokenizer
\* getArgs: one word per white-space character, plus the last word.
RECURSIVE getArgsLoop(_, _, _, _)
getArgsLoop(promptInput, promptIndex, currWord, words) ==
    IF promptIndex > Len(promptInput)
    THEN Append(words, currWord)
    ELSE IF promptInput[promptIndex] # " " /\ promptInput[promptIndex] # "\t"
         THEN getArgsLoop(promptInput, promptIndex + 1,
                          Append(currWord, promptInput[promptIndex]), words)
         ELSE getArgsLoop(promptInput, promptIndex + 1, <<>>,
                          Append(words, currWord))

\* The array args after getArgs: the words, then NULL.
getArgs(promptInput) == Append(getArgsLoop(promptInput, 1, <<>>, <<>>), NULL)

\* args[k] of the C array (every element past the stored ones is NULL).
At(args, k) == IF k + 1 <= Len(args) THEN args[k + 1] ELSE NULL

\* args with args[k] = v.
Put(args, k, v) == [args EXCEPT ![k + 1] = v]

\* A test that takes a lone "<", ">" or "&" for a word too.
isWord_operators(word) ==
    IF word = NULL THEN FALSE
    ELSE IF word = <<>> THEN FALSE
    ELSE TRUE

isWord(word) ==
    IF word = NULL THEN FALSE
    ELSE IF word = <<>> THEN FALSE
    ELSE IF word[1] \in {"<", ">", "&"} /\ Len(word) = 1 THEN FALSE
    ELSE TRUE

\* replaceDoubleDollars: the first "$$" of the word becomes the pid, and the
\* function returns.
RECURSIVE replaceDoubleDollarsLoop(_, _)
replaceDoubleDollarsLoop(arg, index) ==
    IF index > Len(arg) \/ index + 1 > Len(arg) THEN arg
    ELSE IF arg[index] = "$" /\ arg[index + 1] = "$"
         THEN SubSeq(arg, 1, index - 1) \o ShellPidString
              \o SubSeq(arg, index + 2, Len(arg))
         ELSE replaceDoubleDollarsLoop(arg, index + 1)

replaceDoubleDollars(arg) == replaceDoubleDollarsLoop(arg, 1)

\* argsFilterDown on the parser's state s.  The two pointers differ exactly
\* when the two indices do (every word is its own allocation).
argsFilterDown(s) ==
    LET moved == IF s.actualIndex # s.examineIndex
                 THEN Put(Put(s.args, s.actualIndex, At(s.args, s.examineIndex)),
                          s.examineIndex, NULL)
                 ELSE s.args
    IN [s EXCEPT !.args = moved,
                 !.actualIndex = s.actualIndex + 1,
                 !.examineIndex = s.examineIndex + 1]

\* A branch that takes any "&" for the background marker.
parseAmpersand_anywhere(s, allowed) ==
    [s EXCEPT !.backgroundFlag = IF allowed = FALSE_ THEN FALSE_ ELSE TRUE_,
              !.examineIndex = s.examineIndex + 1]

\* A branch that keeps a closing "&" as an argument while background
\* execution is not allowed.
parseAmpersand_keeps(s, allowed) ==
    IF At(s.args, s.examineIndex + 1) = NULL /\ allowed # FALSE_
    THEN [s EXCEPT !.backgroundFlag = TRUE_,
                   !.examineIndex = s.examineIndex + 1]
    ELSE argsFilterDown(s)

\* One turn of parseArgs' while loop: the branch for a word "&".
parseAmpersand(s, allowed) ==
    IF At(s.args, s.examineIndex + 1) = NULL
    THEN [s EXCEPT !.backgroundFlag = IF allowed = FALSE_ THEN FALSE_ ELSE TRUE_,
                   !.examineIndex = s.examineIndex + 1]
    ELSE argsFilterDown(s)

\* One turn of parseArgs' while loop.
parseArgsTurn(s, allowed) ==
    LET word == At(s.args, s.examineIndex)
        next == At(s.args, s.examineIndex + 1)
    IN IF word = <<"<">>
       THEN IF isWord(next)
            THEN [s EXCEPT !.inputRedirectionFlag = 1,
                           !.inputRedirectionFileName = next,
                           !.examineIndex = s.examineIndex + 2]
            ELSE argsFilterDown(s)
       ELSE IF word = <<">">>
       THEN IF isWord(next)
            THEN [s EXCEPT !.outputRedirectionFlag = 1,
                           !.outputRedirectionFileName = next,
                           !.examineIndex = s.examineIndex + 2]
            ELSE argsFilterDown(s)
       ELSE IF word = <<"$", "$">>
       THEN [s EXCEPT !.args = Put(s.args, s.examineIndex, ShellPidString)]
       ELSE IF word = <<"&">>
       THEN parseAmpersand(s, allowed)
       ELSE argsFilterDown(
                [s EXCEPT !.args = Put(s.args, s.examineIndex,
                                       replaceDoubleDollars(word))])

RECURSIVE parseArgsLoop(_, _)
parseArgsLoop(s, allowed) ==
    IF At(s.args, s.examineIndex) = NULL
    THEN [s EXCEPT !.args = Put(s.args, s.actualIndex, NULL)]
    ELSE parseArgsLoop(parseArgsTurn(s, allowed), allowed)

\* parseArgs on the array args, with the globals it reads and writes: the
\* three flags and two file names as they are before the call, and
\* background_allowed as the one read of line 705 finds it.
parseArgs(args, flags, allowed) ==
    parseArgsLoop([args |-> args, examineIndex |-> 0, actualIndex |-> 0,
                   inputRedirectionFlag |-> flags.inputRedirectionFlag,
                   inputRedirectionFileName |-> flags.inputRedirectionFileName,
                   outputRedirectionFlag |-> flags.outputRedirectionFlag,
                   outputRedirectionFileName |-> flags.outputRedirectionFileName,
                   backgroundFlag |-> flags.backgroundFlag],
                  allowed)

\* The argument vector execvp and isBuiltIn see: args up to its first NULL.
RECURSIVE Argv(_)
Argv(args) ==
    IF args = <<>> \/ Head(args) = NULL THEN <<>>
    ELSE <<Head(args)>> \o Argv(Tail(args))

isBuiltIn(userInput) ==
    IF userInput = NULL \/ userInput = <<>> THEN COMMENT_CODE
    ELSE IF userInput[1] = "#" THEN COMMENT_CODE
    ELSE IF userInput = Str_cd THEN CD_CODE
    ELSE IF userInput = Str_status THEN STATUS_CODE
    ELSE IF userInput = Str_exit THEN EXIT_CODE
    ELSE -1

\* -------------------------------------------------------------- registry
\* A processArray is [capacity, size, array], array of length capacity.
Zeros(n) == [k \in 1..n |-> 0]

createProcessArray == [capacity |-> InitCapacity, size |-> 0,
                       array |-> Zeros(InitCapacity)]

\* A doubling that leaves the old entries behind.
doubleCapacity_noCopy(proc) ==
    [proc EXCEPT !.array = Zeros(proc.capacity * 2),
                 !.capacity = proc.capacity * 2]

doubleCapacity(proc) ==
    [proc EXCEPT !.array = proc.array \o Zeros(proc.capacity),
                 !.capacity = proc.capacity * 2]

\* The first index (from 0) of a slot holding val, or capacity when none does.
RECURSIVE FirstSlot(_, _, _)
FirstSlot(proc, val, index) ==
    IF index >= proc.capacity THEN proc.capacity
    ELSE IF proc.array[index + 1] = val THEN index
    ELSE FirstSlot(proc, val, index + 1)

processesAdd(proc, val) ==
    LET grown == IF proc.capacity = proc.size
                 THEN LET d == doubleCapacity(proc)
                      IN [d EXCEPT !.array =
                              [k \in 1..d.capacity |->
                                  IF k - 1 >= d.size THEN 0 ELSE d.array[k]]]
                 ELSE proc
        index == FirstSlot(grown, 0, 0)
    IN IF index < grown.capacity
       THEN [grown EXCEPT !.array[index + 1] = val, !.size = grown.size + 1]
       ELSE grown

\* A removal that clears the slot and leaves the gap.
processesRemove_gap(proc, val) ==
    LET i == FirstSlot(proc, val, 0)
    IN IF i < proc.capacity
       THEN [proc EXCEPT !.array[i + 1] = 0, !.size = proc.size - 1]
       ELSE proc

\* A removal that shifts and decrements whether or not it found the pid.
processesRemove_always(proc, val) ==
    LET i == FirstSlot(proc, val, 0)
        at == IF i < proc.capacity THEN i ELSE proc.capacity - 1
    IN [proc EXCEPT !.array =
             [k \in 1..proc.capacity |->
                 IF k - 1 < at THEN proc.array[k]
                 ELSE IF k < proc.capacity THEN proc.array[k + 1]
                 ELSE 0],
                    !.size = proc.size - 1]

processesRemove(proc, val) ==
    LET i == FirstSlot(proc, val, 0)
    IN IF i < proc.capacity
       THEN [proc EXCEPT !.array =
                  [k \in 1..proc.capacity |->
                      IF k - 1 < i THEN proc.array[k]
                      ELSE IF k < proc.capacity THEN proc.array[k + 1]
                      ELSE 0],
                         !.size = proc.size - 1]
       ELSE proc

\* The pids the reaper enumerates: slots 0 .. size-1.
Enumerate(proc) == [k \in 1..proc.size |-> proc.array[k]]


\* ------------------------------------------------------------ the child
\* What the forked child has done when its branch of spawnProcess' switch
\* ends: the disposition it set for SIGTSTP, where its stdin and stdout
\* point (the path of the file, <<>> while they are those the shell has),
\* what it wrote, how execvp went, and the code it exited with (-1 when it
\* did not call exit).  "none" is the parent with no child forked.
\* inputFile and outputFile are the locals of lines 778-779: "unset" until
\* open() is called, then "fd" for a descriptor or "-1" for a failure.
DevNull == <<"/", "d", "e", "v", "/", "n", "u", "l", "l">>

NoChild == [SIGTSTP |-> "none", stdin |-> <<>>, stdout |-> <<>>,
            inputFile |-> "unset", outputFile |-> "unset",
            wrote |-> <<>>, execvp |-> "none", exit |-> -1]

\* A child that leaves SIGTSTP to its default action.
childSignal_default == "SIG_DFL"

\* Line 793: signal(SIGTSTP, SIG_IGN).
childSignal == "SIG_IGN"

\* A child that goes on after its input file did not open.
childInput_goesOn(c, inFlag, inName, bgFlag, opened) ==
    IF inFlag # 0
    THEN IF ~opened
         THEN [c EXCEPT !.inputFile = "-1",
                        !.wrote = <<"cannot open", inName, "for input">>]
         ELSE [c EXCEPT !.inputFile = "fd", !.stdin = inName]
    ELSE IF bgFlag # 0
    THEN [c EXCEPT !.inputFile = "fd", !.stdin = DevNull]
    ELSE c

\* Lines 796-812: the input redirection; opened tells whether open() of the
\* input file succeeds.
childInput(c, inFlag, inName, bgFlag, opened) ==
    IF inFlag # 0
    THEN IF ~opened
         THEN [c EXCEPT !.inputFile = "-1",
                        !.wrote = <<"cannot open", inName, "for input">>,
                        !.exit = 1]
         ELSE [c EXCEPT !.inputFile = "fd", !.stdin = inName]
    ELSE IF bgFlag # 0
    THEN [c EXCEPT !.inputFile = "fd", !.stdin = DevNull]
    ELSE c

\* Lines 815-822: the output redirection; open()'s result is not tested, and
\* when it is -1 dup2(-1, 1) fails too and stdout stays what it was.
childOutput(c, outFlag, outName, bgFlag, opened) ==
    IF outFlag # 0
    THEN IF opened
         THEN [c EXCEPT !.outputFile = "fd", !.stdout = outName]
         ELSE [c EXCEPT !.outputFile = "-1"]
    ELSE IF bgFlag # 0
    THEN [c EXCEPT !.outputFile = "fd", !.stdout = DevNull]
    ELSE c

\* Lines 825-833: execvp replaces the program, or fails and the child
\* writes the error and exits with 1.
childExec(c, command, found) ==
    IF found THEN [c EXCEPT !.execvp = "replaced"]
    ELSE [c EXCEPT !.execvp = "failed",
                   !.wrote = <<command, "strerror">>,
                   !.exit = 1]

\* Case 0 of spawnProcess' switch, lines 790-834, on the child's copy of the
\* flags, the file names and args; env tells which of its system calls
\* succeed.
spawnProcess_child(inFlag, inName, outFlag, outName, bgFlag, command, env) ==
    LET c0 == [NoChild EXCEPT !.SIGTSTP = childSignal,
                              !.execvp = "not called"]
        c1 == childInput(c0, inFlag, inName, bgFlag, env.input)
    IN IF c1.exit # -1 THEN c1
       ELSE childExec(childOutput(c1, outFlag, outName, bgFlag, env.output),
                      command, env.execvp)

\* Which of the child's system calls succeed.
ChildEnv == [input : BOOLEAN, output : BOOLEAN, execvp : BOOLEAN]

\* ------------------------------------------------------------------ state
VARIABLES
    pc,                          \* where the main flow stands
    background_allowed,          \* line 49
    previous_background_allowed, \* line 50
    inputRedirectionFlag,        \* line 51
    outputRedirectionFlag,       \* line 52
    backgroundFlag,              \* line 53
    foregroundProcessRunning,    \* line 54
    inputRedirectionFileName,    \* line 46
    outputRedirectionFileName,   \* line 47
    promptInput,                 \* main: the line read
    args,                        \* main: the array of words
    status,                      \* main: result of the last foreground child
    procs,                       \* main: the registry of background pids
    pid,                         \* spawnProcess: what fork() returned
    results,                     \* spawnProcess: what waitpid() stored
    seen_allowed,                \* displayBGMessage: background_allowed as
                                 \*   the test of line 357 read it
    children,                    \* the shell's child processes, by pid: a pid
                                 \*   is free, or its process is running, or
                                 \*   it has terminated and waits to be waited
                                 \*   for (a zombie)
    nTSTP,                       \* history: SIGTSTP deliveries so far
    notes,                       \* history: the mode notifications written
    noteBy,                      \* history: who wrote the last of them
    reported,                    \* history: what the reaper pass that has
                                 \*   just ended wrote
    regLive,                     \* history: pids added and not yet removed
    regNext,                     \* history: the next pid never added before
    child,                       \* the child spawnProcess has just forked: what
                                 \*   its branch of the switch (case 0) did
    printed,                     \* history: what the command just dispatched
                                 \*   made the shell write
    nINT                         \* history: SIGINT deliveries so far

vars == <<pc, background_allowed, previous_background_allowed,
          inputRedirectionFlag, outputRedirectionFlag, backgroundFlag,
          foregroundProcessRunning, inputRedirectionFileName,
          outputRedirectionFileName, promptInput, args, status, procs, pid,
          results, seen_allowed, children, nTSTP, notes, noteBy, reported,
          regLive, regNext, child, printed, nINT>>

flagVars == <<inputRedirectionFlag, outputRedirectionFlag, backgroundFlag,
              inputRedirectionFileName, outputRedirectionFileName>>
modeVars == <<background_allowed, previous_background_allowed, nTSTP, notes,
              noteBy>>
lineVars == <<promptInput, args>>
regVars == <<regLive, regNext>>
spawnVars == <<child, printed, nINT>>

Pids == 1..MaxPid

\* What waitpid reports of a terminated child: WIFEXITED with WEXITSTATUS, or
\* WIFSIGNALED with WTERMSIG.
ExitCodes == {0, 1}
TermSignals == {2}
Outcomes == [exited : {TRUE}, code : ExitCodes]
            \cup [exited : {FALSE}, code : TermSignals]

\* A result that takes every wait status for a normal exit.
ResultOf_exitOnly(w) == [sig |-> FALSE_, code |-> w.code]

\* struct Results as spawnProcess fills it from a wait status.
ResultOf(w) == IF w.exited THEN [sig |-> FALSE_, code |-> w.code]
               ELSE [sig |-> TRUE_, code |-> w.code]

\* int results = 0 (line 777).
NoResults == [exited |-> TRUE, code |-> 0]

\* The lines the user types into the running shell.
ShellLines == {<<>>, <<"a">>, <<"a", " ", "&">>, <<"a", " ", "<", " ", "a">>,
               <<"a", " ", ">", " ", "a">>, <<"<">>, Str_cd, Str_status,
               Str_exit}

\* The state main() builds before its loop, but for the variables the three
\* specifications start differently.
InitCommon ==
    /\ inputRedirectionFlag = 0
    /\ outputRedirectionFlag = 0
    /\ backgroundFlag = 0
    /\ foregroundProcessRunning = 0
    /\ inputRedirectionFileName = <<>>
    /\ outputRedirectionFileName = <<>>
    /\ args = <<NULL>>
    /\ procs = createProcessArray
    /\ pid = 0
    /\ results = NoResults
    /\ seen_allowed = TRUE_
    /\ children = [p \in Pids |-> "free"]
    /\ nTSTP = 0
    /\ notes = <<>>
    /\ noteBy = "nobody"
    /\ reported = <<>>
    /\ regLive = {}
    /\ regNext = 1
    /\ child = NoChild
    /\ printed = <<>>
    /\ nINT = 0

\* The shell as main() starts its loop; status is not initialised (line 936).
Init ==
    /\ InitCommon
    /\ pc = "cleanupProcs"
    /\ background_allowed = TRUE_
    /\ previous_background_allowed = TRUE_
    /\ promptInput = <<>>
    /\ status \in {ResultOf(w) : w \in Outcomes}

\* Every line of at most MaxLineLen characters.
Lines == UNION {[1..n -> LineChars] : n \in 0..MaxLineLen}

\* The parser about to run on any line, in either mode.
InitParse ==
    /\ InitCommon
    /\ pc = "getArgs"
    /\ background_allowed \in {FALSE_, TRUE_}
    /\ previous_background_allowed = background_allowed
    /\ promptInput \in Lines
    /\ status = ResultOf(NoResults)

\* The registry as createProcessArray returns it, and nothing else running.
InitRegistry ==
    /\ InitCommon
    /\ pc = "registry"
    /\ background_allowed = TRUE_
    /\ previous_background_allowed = TRUE_
    /\ promptInput = <<>>
    /\ status = ResultOf(NoResults)


\* ---------------------------------------------------------- the handler
\* A handler that sets foreground-only mode where the code toggles.
Flip_sets(flag) == FALSE_

\* background_allowed ^= 1 on a flag that is 0 or 1.
Flip(flag) == IF flag = 0 THEN 1 ELSE 0

\* The message displayBGMessage and the handler choose for a flag value.
MessageFor(allowed) == IF allowed = 0 THEN "Entering" ELSE "Exiting"

\* A handler that leaves previous_background_allowed behind the flag.
HandlerPrevious_behind(allowed) == Flip(allowed)

\* What line 138 stores into previous_background_allowed.
HandlerPrevious(allowed) == allowed

\* shellCatchSIGTSTP: delivered at any point of the main flow, and itself
\* not interrupted (sa_mask is full).
shellCatchSIGTSTP ==
    /\ pc # "exited"
    /\ nTSTP < MaxSignals
    /\ nTSTP' = nTSTP + 1
    /\ background_allowed' = Flip(background_allowed)
    /\ IF foregroundProcessRunning = TRUE_
       THEN UNCHANGED <<previous_background_allowed, notes, noteBy>>
       ELSE /\ notes' = Append(notes, MessageFor(background_allowed'))
            /\ noteBy' = "handler"
            /\ previous_background_allowed' = HandlerPrevious(background_allowed')
    /\ UNCHANGED <<pc, flagVars, foregroundProcessRunning, lineVars, status,
                   procs, pid, results, seen_allowed, children, reported,
                   regVars, spawnVars>>

\* ----------------------------------------------------------- the reaper
\* A check that never finds a child terminated.
waitpidNoHang_never(kids, p) == IF p \in DOMAIN kids THEN 0 ELSE -1

\* waitpid(p, &results, WNOHANG): p when that child has terminated, 0 when it
\* runs, -1 when the shell has no such child.
waitpidNoHang(kids, p) ==
    IF p \notin DOMAIN kids THEN -1
    ELSE IF kids[p] = "zombie" THEN p
    ELSE IF kids[p] = "running" THEN 0
    ELSE -1

\* A loop that does not step back after a removal.
cleanupProcsNextIndex_skips(i, removed) == i + 1

\* The loop index after one turn of cleanupProcs' loop: i-- after a removal,
\* then the loop's ++i.
cleanupProcsNextIndex(i, removed) == IF removed THEN (i - 1) + 1 ELSE i + 1

\* cleanupProcs' loop from index s.i on, on s = [procs, children, reported, i];
\* ws[p] is the wait status waitpid stores for child p.
RECURSIVE cleanupProcsLoop(_, _)
cleanupProcsLoop(s, ws) ==
    IF s.i >= s.procs.size THEN s
    ELSE LET p == s.procs.array[s.i + 1]
             got == waitpidNoHang(s.children, p)
         IN IF got > 0
            THEN cleanupProcsLoop(
                     [procs |-> processesRemove(s.procs, got),
                      children |-> [s.children EXCEPT ![got] = "free"],
                      reported |-> Append(s.reported,
                                          [pid |-> got,
                                           res |-> ResultOf(ws[got])]),
                      i |-> cleanupProcsNextIndex(s.i, TRUE)],
                     ws)
            ELSE cleanupProcsLoop(
                     [s EXCEPT !.i = cleanupProcsNextIndex(s.i, FALSE)], ws)

\* One reaper pass.  A child that terminates during the pass is found either
\* as if it had terminated before the pass (its check was still to come) or
\* as if it terminates after it, so the pass is one step.
cleanupProcs ==
    /\ pc = "cleanupProcs"
    /\ \E ws \in [Pids -> Outcomes] :
           \E s \in {cleanupProcsLoop([procs |-> procs, children |-> children,
                                       reported |-> <<>>, i |-> 0], ws)} :
              /\ procs' = s.procs
              /\ children' = s.children
              /\ reported' = s.reported
    /\ pc' = "displayBGMessage"
    /\ UNCHANGED <<modeVars, flagVars, foregroundProcessRunning, lineVars,
                   status, pid, results, seen_allowed, regVars, spawnVars>>

\* ------------------------------------------------------------ the prompt
\* displayBGMessage, line 357: the two flags are compared.
displayBGMessage_test ==
    /\ pc = "displayBGMessage"
    /\ IF background_allowed = previous_background_allowed
       THEN pc' = "getline" /\ UNCHANGED seen_allowed
       ELSE pc' = "displayBGMessage_print" /\ seen_allowed' = background_allowed
    /\ reported' = <<>>
    /\ UNCHANGED <<modeVars, flagVars, foregroundProcessRunning, lineVars,
                   status, procs, pid, results, children, regVars, spawnVars>>

\* displayBGMessage, lines 363-370: the message is chosen by background_allowed,
\* read again or kept from line 357 (the variable is not volatile and no call
\* separates the two reads).
displayBGMessage_print ==
    /\ pc = "displayBGMessage_print"
    /\ \E allowed \in {background_allowed, seen_allowed} :
           notes' = Append(notes, MessageFor(allowed))
    /\ noteBy' = "main"
    /\ seen_allowed' = TRUE_
    /\ pc' = "displayBGMessage_update"
    /\ UNCHANGED <<background_allowed, previous_background_allowed, nTSTP,
                   flagVars, foregroundProcessRunning, lineVars, status, procs,
                   pid, results, children, reported, regVars, spawnVars>>

\* displayBGMessage, line 371 (after the calls to printf and fflush).
displayBGMessage_update ==
    /\ pc = "displayBGMessage_update"
    /\ previous_background_allowed' = background_allowed
    /\ pc' = "getline"
    /\ UNCHANGED <<background_allowed, nTSTP, notes, noteBy, flagVars,
                   foregroundProcessRunning, lineVars, status, procs, pid,
                   results, seen_allowed, children, reported, regVars, spawnVars>>

\* prompt: the prompt is written and getline returns a line.
getline_line ==
    /\ pc = "getline"
    /\ \E line \in ShellLines : promptInput' = line
    /\ pc' = "getArgs"
    /\ UNCHANGED <<modeVars, flagVars, foregroundProcessRunning, args, status,
                   procs, pid, results, seen_allowed, children, reported,
                   regVars, spawnVars>>

\* prompt: getline fails, and the loop of line 384 displays again.
getline_fails ==
    /\ pc = "getline"
    /\ pc' = "displayBGMessage"
    /\ UNCHANGED <<modeVars, flagVars, foregroundProcessRunning, lineVars,
                   status, procs, pid, results, seen_allowed, children,
                   reported, regVars, spawnVars>>

\* ------------------------------------------------------------ the parser
\* main, lines 953-954: getArgs, then parseArgs.
getArgs_parseArgs ==
    /\ pc = "getArgs"
    /\ \E s \in {parseArgs(getArgs(promptInput),
                          [inputRedirectionFlag |-> inputRedirectionFlag,
                           inputRedirectionFileName |-> inputRedirectionFileName,
                           outputRedirectionFlag |-> outputRedirectionFlag,
                           outputRedirectionFileName |-> outputRedirectionFileName,
                           backgroundFlag |-> backgroundFlag],
                          background_allowed)} :
          /\ args' = s.args
          /\ inputRedirectionFlag' = s.inputRedirectionFlag
          /\ inputRedirectionFileName' = s.inputRedirectionFileName
          /\ outputRedirectionFlag' = s.outputRedirectionFlag
          /\ outputRedirectionFileName' = s.outputRedirectionFileName
          /\ backgroundFlag' = s.backgroundFlag
    /\ pc' = "isBuiltIn"
    /\ UNCHANGED <<modeVars, foregroundProcessRunning, promptInput, status,
                   procs, pid, results, seen_allowed, children, reported,
                   regVars, spawnVars>>

\* ---------------------------------------------------------- the dispatch
\* What the status builtin writes (lines 967-974), and spawnProcess after a
\* foreground child a signal killed (line 860).
statusMessage(st) ==
    IF st.sig = FALSE_ THEN <<"exit value", st.code>>
    ELSE <<"terminated by signal", st.code>>

\* A switch whose status builtin clears the result after printing it.
dispatch_clears ==
    /\ pc = "isBuiltIn"
    /\ LET commandCode == isBuiltIn(At(args, 0))
       IN /\ pc' = IF commandCode \in {CD_CODE, STATUS_CODE, COMMENT_CODE}
                   THEN "resetFlags"
                   ELSE IF commandCode = EXIT_CODE THEN "exited"
                   ELSE "fork"
          /\ printed' = IF commandCode = STATUS_CODE
                        THEN statusMessage(status)
                        ELSE <<>>
          /\ status' = IF commandCode = STATUS_CODE
                       THEN [sig |-> FALSE_, code |-> 0]
                       ELSE status
    /\ UNCHANGED <<modeVars, flagVars, foregroundProcessRunning, lineVars,
                   procs, pid, results, seen_allowed, children,
                   reported, regVars, child, nINT>>

\* main, lines 955-995: the switch on isBuiltIn(args[0]).
dispatch ==
    /\ pc = "isBuiltIn"
    /\ LET commandCode == isBuiltIn(At(args, 0))
       IN /\ pc' = IF commandCode \in {CD_CODE, STATUS_CODE, COMMENT_CODE}
                   THEN "resetFlags"
                   ELSE IF commandCode = EXIT_CODE THEN "exited"
                   ELSE "fork"
          /\ printed' = IF commandCode = STATUS_CODE
                        THEN statusMessage(status)
                        ELSE <<>>
    /\ UNCHANGED <<modeVars, flagVars, foregroundProcessRunning, lineVars,
                   status, procs, pid, results, seen_allowed, children,
                   reported, regVars, child, nINT>>

FreePids == {p \in Pids : children[p] = "free"}

\* A failed fork() after which the parent's branch runs all the same, on the
\* pid -1.
fork_fails_goesOn ==
    /\ pc = "fork"
    /\ printed' = <<"fork() failed">>
    /\ procs' = IF backgroundFlag # 0 THEN processesAdd(procs, -1) ELSE procs
    /\ status' = IF backgroundFlag # 0 THEN status
                 ELSE [sig |-> FALSE_, code |-> 0]
    /\ pc' = "resetFlags"
    /\ UNCHANGED <<modeVars, flagVars, foregroundProcessRunning, lineVars,
                   pid, results, seen_allowed, children, reported, regVars,
                   child, nINT>>

\* spawnProcess, line 782: fork() fails (pid is -1, and the call returns), or
\* a child starts under a free pid.  pid and results are locals of
\* spawnProcess: they hold 0 whenever no call is under way.
fork_fails ==
    /\ pc = "fork"
    /\ printed' = <<"fork() failed">>
    /\ pc' = "resetFlags"
    /\ UNCHANGED <<modeVars, flagVars, foregroundProcessRunning, lineVars,
                   status, procs, pid, results, seen_allowed, children,
                   reported, regVars, child, nINT>>

fork ==
    /\ pc = "fork"
    /\ \E p \in FreePids :
           /\ pid' = p
           /\ children' = [children EXCEPT ![p] = "running"]
    /\ \E env \in ChildEnv :
           child' = spawnProcess_child(inputRedirectionFlag,
                                       inputRedirectionFileName,
                                       outputRedirectionFlag,
                                       outputRedirectionFileName,
                                       backgroundFlag, At(args, 0), env)
    /\ pc' = "spawnProcess_parent"
    /\ UNCHANGED <<modeVars, flagVars, foregroundProcessRunning, lineVars,
                   status, procs, results, seen_allowed, reported, regVars,
                   printed, nINT>>

\* A parent that registers every child, the one it waits for too.
spawnProcess_parent_registersAll ==
    /\ pc = "spawnProcess_parent"
    /\ procs' = processesAdd(procs, pid)
    /\ IF backgroundFlag # 0
       THEN /\ printed' = <<"background pid is", pid>>
            /\ pid' = 0
            /\ child' = NoChild
            /\ pc' = "resetFlags"
            /\ UNCHANGED foregroundProcessRunning
       ELSE /\ foregroundProcessRunning' = TRUE_
            /\ pc' = "waitpid"
            /\ UNCHANGED <<pid, child, printed>>
    /\ UNCHANGED <<modeVars, flagVars, lineVars, status, results,
                   seen_allowed, children, reported, regVars, nINT>>

\* spawnProcess, lines 840-848: the parent registers a background child, or
\* marks the foreground wait.
spawnProcess_parent ==
    /\ pc = "spawnProcess_parent"
    /\ IF backgroundFlag # 0
       THEN /\ printed' = <<"background pid is", pid>>
            /\ procs' = processesAdd(procs, pid)
            /\ pid' = 0
            /\ child' = NoChild
            /\ pc' = "resetFlags"
            /\ UNCHANGED foregroundProcessRunning
       ELSE /\ foregroundProcessRunning' = TRUE_
            /\ pc' = "waitpid"
            /\ UNCHANGED <<procs, pid, child, printed>>
    /\ UNCHANGED <<modeVars, flagVars, lineVars, status, results,
                   seen_allowed, children, reported, regVars, nINT>>

\* The wait statuses a terminated child can leave: the one of its exit(1)
\* when it never became the program, else any.
WaitStatuses(c) ==
    IF c.exit # -1 THEN {[exited |-> TRUE, code |-> c.exit]} ELSE Outcomes

\* spawnProcess, line 849: waitpid(pid, &results, 0) returns once the child
\* has terminated.
waitpid ==
    /\ pc = "waitpid"
    /\ children[pid] = "zombie"
    /\ \E w \in WaitStatuses(child) : results' = w
    /\ children' = [children EXCEPT ![pid] = "free"]
    /\ pc' = "spawnProcess_status"
    /\ UNCHANGED <<modeVars, flagVars, foregroundProcessRunning, lineVars,
                   status, procs, pid, seen_allowed, reported, regVars, spawnVars>>

\* spawnProcess, lines 850-862.
spawnProcess_status ==
    /\ pc = "spawnProcess_status"
    /\ foregroundProcessRunning' = FALSE_
    /\ status' = ResultOf(results)
    /\ printed' = IF results.exited THEN <<>>
                  ELSE statusMessage(ResultOf(results))
    /\ pid' = 0
    /\ results' = NoResults
    /\ child' = NoChild
    /\ pc' = "resetFlags"
    /\ UNCHANGED <<modeVars, flagVars, lineVars, procs, seen_allowed,
                   children, reported, regVars, nINT>>

\* A reset that also puts the mode back.
resetFlags_mode ==
    /\ pc = "resetFlags"
    /\ inputRedirectionFlag' = 0
    /\ outputRedirectionFlag' = 0
    /\ backgroundFlag' = 0
    /\ background_allowed' = TRUE_
    /\ printed' = <<>>
    /\ pc' = "cleanupProcs"
    /\ UNCHANGED <<previous_background_allowed, nTSTP, notes, noteBy,
                   inputRedirectionFileName, outputRedirectionFileName,
                   foregroundProcessRunning, lineVars, status, procs, pid,
                   results, seen_allowed, children, reported, regVars, child,
                   nINT>>

\* A reset that leaves the background flag as the line set it.
resetFlags_keepsBackground ==
    /\ pc = "resetFlags"
    /\ inputRedirectionFlag' = 0
    /\ outputRedirectionFlag' = 0
    /\ printed' = <<>>
    /\ pc' = "cleanupProcs"
    /\ UNCHANGED <<modeVars, backgroundFlag, inputRedirectionFileName,
                   outputRedirectionFileName, foregroundProcessRunning,
                   lineVars, status, procs, pid, results, seen_allowed,
                   children, reported, regVars, child, nINT>>

\* main, line 997.
resetFlags ==
    /\ pc = "resetFlags"
    /\ inputRedirectionFlag' = 0
    /\ outputRedirectionFlag' = 0
    /\ backgroundFlag' = 0
    /\ printed' = <<>>
    /\ pc' = "cleanupProcs"
    /\ UNCHANGED <<modeVars, inputRedirectionFileName,
                   outputRedirectionFileName, foregroundProcessRunning,
                   lineVars, status, procs, pid, results, seen_allowed,
                   children, reported, regVars, child, nINT>>

\* ---------------------------------------------------------- the children
\* A shell told of a child's end at once (a SIGCHLD handler), which reports
\* and removes the job there and then.
childTerminates_pushed ==
    /\ \E p \in Pids :
           /\ children[p] = "running"
           /\ p # pid
           /\ children' = [children EXCEPT ![p] = "free"]
           /\ procs' = processesRemove(procs, p)
           /\ \E w \in Outcomes :
                  reported' = Append(reported, [pid |-> p, res |-> ResultOf(w)])
    /\ UNCHANGED <<pc, modeVars, flagVars, foregroundProcessRunning, lineVars,
                   status, pid, results, seen_allowed, regVars, spawnVars>>

\* A running child terminates: it exits, or a signal kills it.  Its wait
\* status (one of Outcomes) is drawn where waitpid hands it to the shell,
\* the first place it is seen.
childTerminates ==
    /\ \E p \in Pids :
           /\ children[p] = "running"
           /\ children' = [children EXCEPT ![p] = "zombie"]
    /\ UNCHANGED <<pc, modeVars, flagVars, foregroundProcessRunning, lineVars,
                   status, procs, pid, results, seen_allowed, reported,
                   regVars, spawnVars>>

\* SIGINT with no handler installed: the default action ends the shell.
catchSIGINT_default ==
    /\ pc # "exited"
    /\ nINT < MaxInterrupts
    /\ nINT' = nINT + 1
    /\ pc' = "exited"
    /\ UNCHANGED <<modeVars, flagVars, foregroundProcessRunning, lineVars,
                   status, procs, pid, results, seen_allowed, children,
                   reported, regVars, child, printed>>

\* catchSIGINT: the handler returns at once (line 105) and the call it
\* interrupted restarts (SA_RESTART).  The signal comes to the shell alone
\* (kill), or from the terminal to the whole foreground process group: no
\* child leaves the shell's group, and execvp puts a caught signal back to
\* its default action, so each child that has become its program is killed,
\* while one still in spawnProcess runs the handler.
catchSIGINT ==
    /\ pc # "exited"
    /\ nINT < MaxInterrupts
    /\ nINT' = nINT + 1
    /\ \E hit \in SUBSET {p \in Pids : /\ children[p] = "running"
                                       /\ p = pid => child.execvp = "replaced"} :
           children' = [p \in Pids |-> IF p \in hit THEN "zombie"
                                       ELSE children[p]]
    /\ UNCHANGED <<pc, modeVars, flagVars, foregroundProcessRunning, lineVars,
                   status, procs, pid, results, seen_allowed, reported,
                   regVars, child, printed>>

MainFlow ==
    \/ cleanupProcs
    \/ displayBGMessage_test
    \/ displayBGMessage_print
    \/ displayBGMessage_update
    \/ getline_line
    \/ getline_fails
    \/ getArgs_parseArgs
    \/ dispatch
    \/ fork_fails
    \/ fork
    \/ spawnProcess_parent
    \/ waitpid
    \/ spawnProcess_status
    \/ resetFlags

Next ==
    \/ MainFlow
    \/ shellCatchSIGTSTP
    \/ catchSIGINT
    \/ childTerminates

Spec == Init /\ [][Next]_vars

\* ------------------------------------------------- the parser on its own
NextParse == getArgs_parseArgs

SpecParse == InitParse /\ [][NextParse]_vars

\* ----------------------------------------------- the registry on its own
\* processesAdd(procs, p) for a pid p never added before.  The code compares
\* pids only for equality (with val and with 0), so the pids are added in
\* increasing order without loss.
addPid ==
    /\ pc = "registry"
    /\ regNext <= MaxRegPid
    /\ procs' = processesAdd(procs, regNext)
    /\ regLive' = regLive \cup {regNext}
    /\ regNext' = regNext + 1
    /\ UNCHANGED <<pc, modeVars, flagVars, foregroundProcessRunning, lineVars,
                   status, pid, results, seen_allowed, children, reported,
                   spawnVars>>

\* processesRemove(procs, p) for any positive pid p: one in the registry, one
\* removed before, or one never added.
removePid ==
    /\ pc = "registry"
    /\ \E p \in 1..MaxRegPid :
           /\ procs' = processesRemove(procs, p)
           /\ regLive' = regLive \ {p}
    /\ UNCHANGED <<pc, modeVars, flagVars, foregroundProcessRunning, lineVars,
                   status, pid, results, seen_allowed, children, reported,
                   regNext, spawnVars>>

NextRegistry == addPid \/ removePid

SpecRegistry == InitRegistry /\ [][NextRegistry]_vars

\* ------------------------------------------------------ fair scheduling
\* The main flow goes on wherever it does not wait for the outside.
Running ==
    \/ displayBGMessage_test
    \/ displayBGMessage_print
    \/ displayBGMessage_update
    \/ dispatch
    \/ fork_fails
    \/ fork
    \/ spawnProcess_parent
    \/ waitpid
    \/ spawnProcess_status
    \/ resetFlags

\* The same for the step from getline's return to the dispatch, and for the
\* reaper pass: parseArgs and cleanupProcs always return, so the main flow
\* does not stay there.
ParseReturns == []<>(pc # "getArgs")
ReaperReturns == []<>(pc # "cleanupProcs")

\* The child the shell waits for in the foreground terminates.
foregroundTerminates ==
    /\ pc = "waitpid"
    /\ childTerminates
    /\ children'[pid] = "zombie"

\* Input lines keep arriving and every foreground job terminates.
LiveSpec ==
    /\ Spec
    /\ WF_vars(Running)
    /\ ParseReturns
    /\ ReaperReturns
    /\ WF_vars(foregroundTerminates)
    /\ SF_vars(getline_line)

\* ============================================================== claims
Last(seq) == seq[Len(seq)]
InRegistry(p) == \E k \in 1..procs.size : procs.array[k] = p

\* C1: background_allowed starts allowed and every delivery of SIGTSTP flips
\* it, whatever the main flow is doing: after n deliveries it is allowed
\* exactly when n is even.
C1_AllowedIffEven ==
    background_allowed = (IF nTSTP % 2 = 0 THEN TRUE_ ELSE FALSE_)

\* Two deliveries during one foreground wait.
C1_Witness ==
    /\ pc = "waitpid"
    /\ foregroundProcessRunning = TRUE_
    /\ nTSTP = 2
    /\ notes = <<>>
    /\ background_allowed = TRUE_

\* C2: a SIGTSTP delivered while foregroundProcessRunning is set makes the
\* handler write nothing, and the main flow writes the deferred notification
\* once at the next prompt, wherever a further signal interrupts it: what
\* displayBGMessage writes describes the mode the shell is in and does not
\* repeat the notification written last (no duplicate), and when the shell
\* waits for a line the last notification written describes its mode (none
\* is missing).
C2_DeferredOnce ==
    /\ [][/\ shellCatchSIGTSTP /\ foregroundProcessRunning = TRUE_
               => notes' = notes
          /\ displayBGMessage_print
               => /\ Last(notes') = MessageFor(background_allowed)
                  /\ notes # <<>> => Last(notes') # Last(notes)]_vars
    /\ [](pc = "getline" =>
              IF notes = <<>> THEN background_allowed = TRUE_
              ELSE Last(notes) = MessageFor(background_allowed))

\* C3: a SIGTSTP delivered while foregroundProcessRunning is clear makes the
\* handler write exactly one notification, "Entering" exactly when
\* background_allowed became false, and the main flow does not write that
\* notification again at the next prompt.
C3_ImmediateOnce ==
    [][/\ shellCatchSIGTSTP /\ foregroundProcessRunning = FALSE_
            => /\ notes' = Append(notes, IF background_allowed' = FALSE_
                                         THEN "Entering" ELSE "Exiting")
               /\ background_allowed' # background_allowed
       /\ displayBGMessage_print /\ noteBy = "handler"
            => Last(notes') # Last(notes)]_vars

\* The words of the line read, as getArgs splits it.
Words == getArgsLoop(promptInput, 1, <<>>, <<>>)

\* The positions of ws, from k on, that a redirection takes: a "<" or ">"
\* followed by a word, and that word.
RECURSIVE RedirectionAt(_, _)
RedirectionAt(ws, k) ==
    IF k > Len(ws) THEN {}
    ELSE IF ws[k] \in {<<"<">>, <<">">>} /\ k < Len(ws) /\ isWord(ws[k + 1])
         THEN {k, k + 1} \cup RedirectionAt(ws, k + 2)
         ELSE RedirectionAt(ws, k + 1)

\* The positions of ws whose words stay arguments: all but the redirections
\* and a "&" that ends the line.
KeptAt(ws) ==
    {k \in 1..Len(ws) : /\ k \notin RedirectionAt(ws, 1)
                        /\ ~(k = Len(ws) /\ ws[k] = <<"&">>)}

\* C4: parseArgs sets the background flag only if "&" is the last word of the
\* line; a "&" with a word after it does not set the flag and stays an
\* argument, at its place in the reduced vector, and so do the words after
\* it, each at its place (but the redirections and a closing "&" among them,
\* which parseArgs takes as it does anywhere).
C4_AmpersandLast ==
    pc = "isBuiltIn" =>
        LET ws == Words
            argv == Argv(args)
            place(k) == Cardinality({j \in KeptAt(ws) : j <= k})
        IN /\ backgroundFlag = TRUE_ => ws[Len(ws)] = <<"&">>
           /\ ws[Len(ws)] # <<"&">> => backgroundFlag = FALSE_
           /\ \A k \in 1..Len(ws) - 1 :
                  ws[k] = <<"&">> =>
                      /\ k \in KeptAt(ws)
                      /\ place(k) <= Len(argv)
                      /\ argv[place(k)] = <<"&">>
                      /\ Len(argv) = Cardinality(KeptAt(ws))
                      /\ \A j \in KeptAt(ws) :
                             j > k => argv[place(j)] = replaceDoubleDollars(ws[j])

\* "a & a": the flag stays clear and the three words are the arguments.
C4_Witness ==
    /\ pc = "isBuiltIn"
    /\ promptInput = <<"a", " ", "&", " ", "a">>
    /\ background_allowed = TRUE_
    /\ backgroundFlag = FALSE_
    /\ Argv(args) = << <<"a">>, <<"&">>, <<"a">> >>

\* C5: no command is launched as a background job while background_allowed
\* is false: when spawnProcess takes its background branch (the background
\* flag of the command is set), background execution is allowed, also when
\* SIGTSTP came between parseArgs and spawnProcess.
C5_NoBackgroundWhenDisallowed ==
    [][spawnProcess_parent /\ backgroundFlag # 0
           => background_allowed = TRUE_]_vars

\* C6: background_allowed is written by the SIGTSTP handler alone: a step
\* that changes it is a step of the handler, so no step of the main flow (or
\* of a child) changes it.
C6_OnlyHandlerWrites ==
    [][background_allowed' # background_allowed => shellCatchSIGTSTP]_vars

\* parseArgs has read the flag as false (it left the "&" of "a &" without
\* effect) and the flag is still what the handler made it.
C6_Witness ==
    /\ pc = "resetFlags"
    /\ promptInput = <<"a", " ", "&">>
    /\ nTSTP = 1
    /\ background_allowed = FALSE_
    /\ backgroundFlag = FALSE_

\* C7: from the empty registry, after any calls of processesAdd and
\* processesRemove on distinct positive pids, the first size slots hold
\* exactly the pids added and not removed since, each once.
C7_EnumeratesLive ==
    pc = "registry" =>
        /\ {Enumerate(procs)[k] : k \in 1..procs.size} = regLive
        /\ procs.size = Cardinality(regLive)

\* add(1), add(2), remove(1): the registry enumerates 2 alone.
C7_Witness ==
    /\ pc = "registry"
    /\ regNext = 3
    /\ regLive = {2}
    /\ Enumerate(procs) = <<2>>

\* C8: 0 <= size <= capacity always and capacity never decreases;
\* processesAdd on a full registry makes capacity twice what it was, keeps
\* every entry at its place and stores the new pid; processesAdd on a
\* registry that is not full leaves capacity as it is.
C8_CapacityDoubles ==
    /\ [](procs.size >= 0 /\ procs.size <= procs.capacity)
    /\ [][/\ procs'.capacity >= procs.capacity
          /\ regNext' # regNext =>
                 IF procs.size = procs.capacity
                 THEN /\ procs'.capacity = 2 * procs.capacity
                      /\ \A k \in 1..procs.size :
                             procs'.array[k] = procs.array[k]
                      /\ procs'.array[procs.size + 1] = regNext
                      /\ procs'.size = procs.size + 1
                 ELSE procs'.capacity = procs.capacity]_vars

\* The eleventh pid has been added to a full registry of ten.
C8_Witness ==
    /\ pc = "registry"
    /\ procs.capacity = 2 * InitCapacity
    /\ procs.size = InitCapacity + 1
    /\ regLive = 1..(InitCapacity + 1)

\* C9: one pass of cleanupProcs checks every job registered when it starts:
\* each job that has terminated is reported once, waited for and removed in
\* that pass (none is skipped after a removal), and each job that has not
\* stays registered, in its order, and keeps running.
C9_ReaperPass ==
    [][pc = "cleanupProcs" /\ pc' = "displayBGMessage" =>
           LET before == Enumerate(procs)
               done(p) == children[p] = "zombie"
               notDone(p) == ~done(p)
           IN /\ Enumerate(procs') = SelectSeq(before, notDone)
              /\ [k \in 1..Len(reported') |-> reported'[k].pid]
                     = SelectSeq(before, done)
              /\ \A k \in 1..Len(before) :
                     children'[before[k]] =
                         IF done(before[k]) THEN "free" ELSE children[before[k]]
      ]_vars

\* Two registered jobs had both terminated, and one pass reported both.
C9_Witness ==
    /\ pc = "displayBGMessage"
    /\ Len(reported) = 2
    /\ reported[1].pid # reported[2].pid
    /\ procs.size = 0

\* C10: a background launch does not make the shell wait (it waits only for
\* a child that is not registered, with the background flag clear), and a
\* registered job that has terminated is in the end reported and removed by
\* the reaper, if lines keep arriving and every foreground job terminates
\* (if the line is exit, the shell ends instead).
C10_BackgroundReaped ==
    /\ [](pc = "waitpid" => backgroundFlag = 0 /\ ~InRegistry(pid))
    /\ \A p \in Pids :
           (InRegistry(p) /\ children[p] = "zombie")
               ~> (~InRegistry(p) \/ pc = "exited")

\* A registered job has terminated while the shell is at its prompt.
C10_Witness ==
    /\ pc = "getline"
    /\ \E p \in Pids : InRegistry(p) /\ children[p] = "zombie"

\* C11: background outcomes are surfaced by the reaper alone, at the start of
\* a loop turn and before the next line is read: a step that reports a
\* background job or takes a pid out of the registry is the reaper pass that
\* opens a turn of main's loop, so a job that terminates during a foreground
\* wait, a dispatch or the wait at the prompt stays registered and
\* unreported until then.
C11_SurfacedByReaperOnly ==
    [][(\/ reported' \notin {reported, <<>>}
        \/ \E p \in Pids : InRegistry(p) /\ ~InRegistry(p)')
           => /\ cleanupProcs
              /\ pc' = "displayBGMessage"]_vars

\* A registered job has terminated while the shell waits for a foreground
\* child, and nothing is reported.
C11_Witness ==
    /\ pc = "waitpid"
    /\ foregroundProcessRunning = TRUE_
    /\ reported = <<>>
    /\ \E p \in Pids : p # pid /\ InRegistry(p) /\ children[p] = "zombie"

\* C12: in every reachable state the registry holds exactly the children of
\* the shell that were launched in the background and that the reaper has
\* not yet found terminated, each once, and never the child the shell waits
\* for in the foreground; a pid enters the registry only where spawnProcess
\* launches it in the background, and leaves it only where the reaper finds
\* that child terminated.
C12_RegistryOwnsBackground ==
    /\ [](LET reg == Enumerate(procs)
              inCall == IF pid = 0 THEN {} ELSE {pid}
          IN /\ \A j, k \in 1..Len(reg) : reg[j] = reg[k] => j = k
             /\ {reg[k] : k \in 1..Len(reg)}
                    = {p \in Pids : children[p] # "free"} \ inCall
             /\ foregroundProcessRunning = TRUE_ => ~InRegistry(pid))
    /\ [][\A p \in Pids :
              /\ ~InRegistry(p) /\ InRegistry(p)'
                    => /\ spawnProcess_parent
                       /\ backgroundFlag # 0
                       /\ p = pid
              /\ InRegistry(p) /\ ~InRegistry(p)'
                    => /\ cleanupProcs
                       /\ children[p] = "zombie"
                       /\ children'[p] = "free"]_vars

\* One background job is registered and has terminated, while a second
\* child, not registered, is being waited for in the foreground.
C12_Witness ==
    /\ pc = "waitpid"
    /\ procs.size = 1
    /\ pid # 0
    /\ ~InRegistry(pid)
    /\ children[pid] = "running"
    /\ \E p \in Pids : InRegistry(p) /\ children[p] = "zombie"

\* C13: after a foreground command the termination result describes that
\* child: spawnProcess stores {code = c, sig = false} for a child that exited
\* with c, and {code = s, sig = true} for a child killed by signal s, which
\* it announces at once; nothing else writes the result; and the status
\* builtin writes exactly the stored result ("exit value 1" after a child
\* that exited with 1).
C13_StatusDescribesChild ==
    [][/\ spawnProcess_status
            => IF results.exited
               THEN /\ status' = [sig |-> FALSE_, code |-> results.code]
                    /\ printed' = <<>>
               ELSE /\ status' = [sig |-> TRUE_, code |-> results.code]
                    /\ printed' = <<"terminated by signal", results.code>>
       /\ waitpid => results' \in WaitStatuses(child)
       /\ status' # status => spawnProcess_status
       /\ dispatch /\ Argv(args) = <<Str_status>>
            => printed' = IF status.sig = FALSE_
                          THEN <<"exit value", status.code>>
                          ELSE <<"terminated by signal", status.code>>]_vars

\* The foreground child of the line "a" was killed by signal 2: the result
\* says so and the shell has announced it.
C13_Witness ==
    /\ pc = "resetFlags"
    /\ promptInput = <<"a">>
    /\ foregroundProcessRunning = FALSE_
    /\ status = [sig |-> TRUE_, code |-> 2]
    /\ printed = <<"terminated by signal", 2>>

\* C14: when fork() fails (the main flow leaves spawnProcess' fork and no
\* child has appeared), the failure is reported, the termination result and
\* the registry are as before, whether or not the command was marked
\* background, and the shell goes on to the end of the loop turn, waiting
\* for nothing.
C14_ForkFailure ==
    /\ [][pc = "fork" /\ pc' # "fork" /\ children' = children
              => /\ printed' = <<"fork() failed">>
                 /\ status' = status
                 /\ procs' = procs
                 /\ foregroundProcessRunning' = foregroundProcessRunning
                 /\ pc' = "resetFlags"]_vars
    /\ [](printed = <<"fork() failed">>
              => /\ pc = "resetFlags"
                 /\ child = NoChild
                 /\ foregroundProcessRunning = FALSE_)

\* fork() has failed for the command of the line "a &", marked background,
\* with no job registered.
C14_Witness ==
    /\ pc = "resetFlags"
    /\ printed = <<"fork() failed">>
    /\ promptInput = <<"a", " ", "&">>
    /\ backgroundFlag = TRUE_
    /\ procs.size = 0
    /\ children = [p \in Pids |-> "free"]

\* The child just forked has reported that its input file did not open.
CannotOpen(c) == Len(c.wrote) = 3 /\ c.wrote[1] = "cannot open"

\* C15: when the input file of a command cannot be opened, the child names
\* it in an error message and exits with a non-zero code without calling
\* execvp; the shell does not hang but comes to its next prompt; and for a
\* foreground command the steps of spawnProcess change nothing of the
\* shell's state but the termination result (foregroundProcessRunning is
\* set for the wait and cleared after it), which becomes exit value 1.
C15_InputOpenFailure ==
    /\ [](CannotOpen(child)
              => /\ inputRedirectionFlag # 0
                 /\ child.wrote[2] = inputRedirectionFileName
                 /\ child.exit > 0
                 /\ child.execvp = "not called")
    /\ [][CannotOpen(child) /\ backgroundFlag = 0 /\ pc' # pc
              => /\ UNCHANGED <<background_allowed,
                                previous_background_allowed, flagVars,
                                lineVars, procs, notes, reported>>
                 /\ pc = "waitpid" => status' = status /\ results'.exited
                 /\ pc = "spawnProcess_status"
                        => /\ status' = [sig |-> FALSE_, code |-> child.exit]
                           /\ foregroundProcessRunning' = FALSE_
                           /\ printed' = <<>>
                           /\ pc' = "resetFlags"]_vars
    /\ (CannotOpen(child) /\ pc = "waitpid") ~> (pc = "getline")

\* The child of "a < a" could not open a, and the shell has waited for it.
C15_Witness ==
    /\ pc = "spawnProcess_status"
    /\ promptInput = <<"a", " ", "<", " ", "a">>
    /\ CannotOpen(child)
    /\ results = [exited |-> TRUE, code |-> 1]
    /\ children[pid] = "free"

\* C16: before execvp every child spawnProcess forks, for the foreground or
\* the background, has put SIGTSTP back to its default action, so that the
\* program it becomes can be stopped.
C16_StopDefault ==
    child.execvp = "replaced" => child.SIGTSTP = "SIG_DFL"

\* C16, amended: before anything else, and so before execvp, every child
\* spawnProcess forks, for the foreground or the background, sets SIGTSTP to
\* be ignored (the shell's handler is not kept, and the default action is
\* not restored), so that the program it becomes is not stopped by SIGTSTP.
C16_StopIgnored ==
    child # NoChild => child.SIGTSTP = "SIG_IGN"

\* A background child has become its program, with SIGTSTP ignored (and so
\* has a foreground one).
C16_Witness ==
    /\ pc = "spawnProcess_parent"
    /\ backgroundFlag = TRUE_
    /\ child.execvp = "replaced"
    /\ child.SIGTSTP = "SIG_IGN"
    /\ child.stdin = DevNull

\* C17: a delivery of SIGINT, at any point, leaves the shell's state as it is
\* (the mode flags, the deferred notification, the registry, the termination
\* result, the per-line flags), writes nothing and does not end the shell;
\* the one process it may end is the child the shell holds in the
\* foreground, so no background job is affected.
C17_InterruptFrame ==
    [][nINT' # nINT
          => /\ UNCHANGED <<pc, modeVars, flagVars, foregroundProcessRunning,
                            lineVars, status, procs, pid, results, reported,
                            printed>>
             /\ pc # "exited"
             /\ \A p \in Pids :
                    children'[p] # children[p]
                        => p = pid /\ backgroundFlag = 0 /\ ~InRegistry(p)
      ]_vars

\* A command of the line just read has failed: its input file did not open,
\* execvp failed, fork() failed, or the line is a "<" with no file name.
CommandFailed ==
    \/ CannotOpen(child)
    \/ child.execvp = "failed"
    \/ printed = <<"fork() failed">>
    \/ pc = "isBuiltIn" /\ promptInput = <<"<">>

\* C18: the shell ends through the exit builtin alone: the one step that
\* ends it is the dispatch of a line whose command is exit; after a failed
\* open of the input file, a failed execvp, a failed fork() or a malformed
\* redirection the loop comes to its next prompt; and whatever signals
\* arrive, the shell keeps coming to a prompt unless exit has ended it.
C18_OnlyExitEnds ==
    /\ [][pc' = "exited" /\ pc # "exited"
              => /\ pc = "isBuiltIn"
                 /\ Argv(args) # <<>>
                 /\ Argv(args)[1] = Str_exit]_vars
    /\ CommandFailed ~> (pc = "getline")
    /\ []<>(pc \in {"getline", "exited"})

\* The command of the malformed line "<" could not be run, every SIGTSTP and
\* SIGINT of the run has been delivered, and the shell goes on.
C18_Witness ==
    /\ pc = "spawnProcess_status"
    /\ promptInput = <<"<">>
    /\ child.execvp = "failed"
    /\ results = [exited |-> TRUE, code |-> 1]
    /\ nTSTP = MaxSignals
    /\ nINT = MaxInterrupts

\* C19: the exit builtin ends the shell and its children: once exit has run,
\* no job that was in the registry is still running.
C19_ExitEndsChildren ==
    pc = "exited" => \A p \in Pids : InRegistry(p) => children[p] # "running"

\* The word w with each "$$" in it, from the left, replaced by the pid.
RECURSIVE ReplaceAll(_)
ReplaceAll(w) ==
    IF Len(w) < 2 THEN w
    ELSE IF w[1] = "$" /\ w[2] = "$"
         THEN ShellPidString \o ReplaceAll(SubSeq(w, 3, Len(w)))
         ELSE <<w[1]>> \o ReplaceAll(Tail(w))

\* C20: whatever the line, every "$$" in it is replaced by the shell's pid
\* and nothing else is altered: each word kept as an argument is that word of
\* the line with all its "$$" replaced (a word that is "$$" alone, a longer
\* word holding it, a word holding it more than once), and so is the file
\* name of a redirection.
C20_EveryDollarsReplaced ==
    pc = "isBuiltIn" =>
        LET ws == Words
            argv == Argv(args)
            place(k) == Cardinality({j \in KeptAt(ws) : j <= k})
            target(op) == {k \in RedirectionAt(ws, 1) :
                              isWord(ws[k]) /\ ws[k - 1] = op}
        IN /\ Len(argv) = Cardinality(KeptAt(ws))
           /\ \A k \in KeptAt(ws) : argv[place(k)] = ReplaceAll(ws[k])
           /\ \A k \in target(<<"<">>) :
                  (\A j \in target(<<"<">>) : j <= k)
                      => inputRedirectionFileName = ReplaceAll(ws[k])
           /\ \A k \in target(<<">">>) :
                  (\A j \in target(<<">">>) : j <= k)
                      => outputRedirectionFileName = ReplaceAll(ws[k])

\* C21: words are split on runs of blanks and tabs: for every line that holds
\* a character other than a blank or a tab, with blanks before, after or
\* repeated between its words, the argument vector has no empty element (so
\* its first element is the program's name); the empty line alone gives one
\* empty word, which isBuiltIn takes for "no command".
C21_SplitOnRuns ==
    pc = "isBuiltIn" =>
        /\ (\E k \in 1..Len(promptInput) : promptInput[k] \notin {" ", "\t"})
              => \A k \in 1..Len(Argv(args)) : Argv(args)[k] # <<>>
        /\ promptInput = <<>>
              => /\ Words = << <<>> >>
                 /\ isBuiltIn(At(args, 0)) = COMMENT_CODE
        /\ Words = << <<>> >> => promptInput = <<>>

\* A non-empty word other than a lone "<", ">" or "&".
PlainWord(w) == w # <<>> /\ w \notin {<<"<">>, <<">">>, <<"&">>}

\* The positions of ws holding op with a plain word right after it.
Redirecting(ws, op) ==
    {k \in 1..Len(ws) : ws[k] = op /\ k < Len(ws) /\ PlainWord(ws[k + 1])}

\* C22: for every sequence of words, a "<" (a ">") whose next word exists
\* and is a non-empty word other than a lone "<", ">" or "&" is taken out
\* with that word, which becomes the input (output) file name, the last such
\* pair counting; a "<" or ">" followed by the end of the line, an empty word
\* or a lone operator stays an argument and sets no redirection; and the
\* words that are left (all but those pairs and a "&" closing the line) are
\* the argument vector, in their order and without gaps.
C22_Redirections ==
    pc = "isBuiltIn" =>
        LET ws == Words
            argv == Argv(args)
            in == Redirecting(ws, <<"<">>)
            out == Redirecting(ws, <<">">>)
            taken == UNION {{k, k + 1} : k \in in \cup out}
            left == {k \in 1..Len(ws) :
                        /\ k \notin taken
                        /\ ~(k = Len(ws) /\ ws[k] = <<"&">>)}
            place(k) == Cardinality({j \in left : j <= k})
        IN /\ inputRedirectionFlag = (IF in = {} THEN 0 ELSE 1)
           /\ outputRedirectionFlag = (IF out = {} THEN 0 ELSE 1)
           /\ \A k \in in : (\A j \in in : j <= k)
                                => inputRedirectionFileName = ws[k + 1]
           /\ \A k \in out : (\A j \in out : j <= k)
                                 => outputRedirectionFileName = ws[k + 1]
           /\ Len(argv) = Cardinality(left)
           /\ \A k \in left :
                  /\ argv[place(k)] = replaceDoubleDollars(ws[k])
                  /\ ws[k] \in {<<"<">>, <<">">>} => argv[place(k)] = ws[k]

\* "< < a": the first "<" is followed by a lone operator and stays an
\* argument, the second is taken out with the file name a.
C22_Witness ==
    /\ pc = "isBuiltIn"
    /\ promptInput = <<"<", " ", "<", " ", "a">>
    /\ Argv(args) = << <<"<">> >>
    /\ inputRedirectionFlag = 1
    /\ inputRedirectionFileName = <<"a">>
    /\ outputRedirectionFlag = 0

\* The line was parsed while background execution was not allowed and its
\* last word is "&".
ClosingMarkerDisallowed ==
    /\ pc = "isBuiltIn"
    /\ background_allowed = FALSE_
    /\ Last(Words) = <<"&">>

\* C23 as stated: when background execution is not allowed and "&" is the
\* last word of the line, the background flag stays false and the "&" stays
\* in the argument vector as an ordinary argument.
C23_MarkerKept ==
    ClosingMarkerDisallowed =>
        /\ backgroundFlag = FALSE_
        /\ Argv(args) # <<>>
        /\ Last(Argv(args)) = <<"&">>

\* C23: when background execution is not allowed and "&" is the last word
\* of the line, the background flag stays false and the "&" is taken out of
\* the argument vector: the vector is the one the same line has when
\* background execution is allowed, where the "&" is the background marker.
C23_MarkerDropped ==
    ClosingMarkerDisallowed =>
        /\ backgroundFlag = FALSE_
        /\ Argv(args) = Argv(parseArgs(getArgs(promptInput),
                                       [inputRedirectionFlag |-> 0,
                                        outputRedirectionFlag |-> 0,
                                        backgroundFlag |-> FALSE_,
                                        inputRedirectionFileName |-> <<>>,
                                        outputRedirectionFileName |-> <<>>],
                                       TRUE_).args)
        /\ Len(Argv(args)) < Len(Words)
        /\ \A k \in 1..Len(Argv(args)) :
              Argv(args)[k] = <<"&">> => \E j \in 1..(Len(Words) - 1) : Words[j] = <<"&">>

\* "a &" parsed in foreground-only mode: the command runs as "a" alone.
C23_Witness ==
    /\ ClosingMarkerDisallowed
    /\ promptInput = <<"a", " ", "&">>
    /\ backgroundFlag = FALSE_
    /\ Argv(args) = << <<"a">> >>

\* C24: in every registry state slots 0 .. size-1 hold non-zero pids and
\* slots size .. capacity-1 hold 0; processesRemove of a pid that is present
\* takes its first occurrence out, moves the later entries down by one in
\* their order and makes size one less; processesRemove of a positive pid
\* that is not present changes neither the entries nor size.
C24_GapFree ==
    /\ [](\A k \in 1..procs.capacity :
              (k <= procs.size) <=> (procs.array[k] # 0))
    /\ [](\A p \in 1..MaxRegPid :
              ~InRegistry(p) => processesRemove(procs, p) = procs)
    /\ [][regNext' = regNext =>
              \A p \in regLive \ regLive' :
                  LET i == FirstSlot(procs, p, 0)
                      before == Enumerate(procs)
                  IN /\ i < procs.size
                     /\ \A k \in 1..i : before[k] # p
                     /\ procs'.size = procs.size - 1
                     /\ procs'.capacity = procs.capacity
                     /\ Enumerate(procs') =
                            SubSeq(before, 1, i)
                               \o SubSeq(before, i + 2, Len(before))]_vars

\* add(1), add(2), add(3), remove(2), then remove(2) again: 3 has moved
\* down next to 1, and the second removal found nothing to take out.
C24_Witness ==
    /\ pc = "registry"
    /\ regNext = 4
    /\ regLive = {1, 3}
    /\ Enumerate(procs) = <<1, 3>>
    /\ procs.array[3] = 0
    /\ processesRemove(procs, 2) = procs

\* C25: status changes only in the step that ends a foreground wait, where
\* it becomes the result of the child waited for; the builtins cd and
\* status, comment and empty lines, the launch of a background job, a pass
\* of the reaper, and the delivery of SIGTSTP or SIGINT leave it as it is,
\* and the status builtin prints the value it holds.
C25_StatusFrame ==
    [][/\ status' # status =>
              /\ pc = "spawnProcess_status"
              /\ status' = ResultOf(results)
       /\ pc = "isBuiltIn" =>
              /\ status' = status
              /\ pc' = "resetFlags" /\ isBuiltIn(At(args, 0)) = STATUS_CODE
                    => printed' = statusMessage(status)
       /\ pc = "spawnProcess_parent" /\ backgroundFlag # 0 => status' = status
       /\ pc = "cleanupProcs" => status' = status
       /\ nTSTP' # nTSTP \/ nINT' # nINT => status' = status]_vars

\* After the foreground command a, a pass of the reaper has reported a
\* background job whose result is not the one status holds, and SIGTSTP has
\* been delivered.
C25_Witness ==
    /\ pc = "displayBGMessage"
    /\ promptInput = <<"a">>
    /\ Len(reported) = 1
    /\ reported[1].res # status
    /\ nTSTP > 0

\* The flags and file names parseArgs leaves for the line in promptInput
\* when it starts with every flag false, in the mode allowed.
FreshParse(allowed) ==
    parseArgs(getArgs(promptInput),
              [inputRedirectionFlag |-> 0,
               outputRedirectionFlag |-> 0,
               backgroundFlag |-> FALSE_,
               inputRedirectionFileName |-> <<>>,
               outputRedirectionFileName |-> <<>>],
              allowed)

\* C26: from the top of the loop until the line is parsed (the reaper's
\* pass, the prompt, the read) the input-redirection, output-redirection and
\* background flags are all false, whichever branch the line before took;
\* and once the line is parsed they, and the file names they make the child
\* use, are what that line alone gives, with no trace of an earlier line.
C26_FlagsPerLine ==
    /\ pc \in {"cleanupProcs", "displayBGMessage", "displayBGMessage_print",
               "displayBGMessage_update", "getline", "getArgs"}
          => /\ inputRedirectionFlag = 0
             /\ outputRedirectionFlag = 0
             /\ backgroundFlag = 0
    /\ pc \in {"isBuiltIn", "fork", "spawnProcess_parent", "waitpid",
               "spawnProcess_status", "resetFlags"}
          => \E allowed \in {TRUE_, FALSE_} :
                LET s == FreshParse(allowed)
                IN /\ inputRedirectionFlag = s.inputRedirectionFlag
                   /\ outputRedirectionFlag = s.outputRedirectionFlag
                   /\ backgroundFlag = s.backgroundFlag
                   /\ inputRedirectionFlag # 0 =>
                          inputRedirectionFileName = s.inputRedirectionFileName
                   /\ outputRedirectionFlag # 0 =>
                          outputRedirectionFileName = s.outputRedirectionFileName

\* The line "a" is about to be parsed after an earlier line redirected its
\* input from a and another started a background job that still runs: the
\* file name is still in its buffer, and every flag is false.
C26_Witness ==
    /\ pc = "getArgs"
    /\ promptInput = <<"a">>
    /\ inputRedirectionFileName = <<"a">>
    /\ procs.size = 1
    /\ inputRedirectionFlag = 0
    /\ outputRedirectionFlag = 0
    /\ backgroundFlag = 0

\* open() of the output file named on the line failed in the child just
\* forked.
CannotOpenOutput(c) == c.outputFile = "-1"

\* C27: when the output file of a command cannot be opened, the child
\* reports the error and exits with a non-zero code without calling execvp,
\* as it does for the input file.
C27_OutputOpenFailure ==
    CannotOpenOutput(child)
        => /\ child.wrote # <<>>
           /\ child.exit > 0
           /\ child.execvp = "not called"

\* C28: whenever the shell has written its prompt and waits for a line, the
\* state it has notified is the state it is in (previous_background_allowed
\* equals background_allowed) and no foreground job is marked as running,
\* the handler running as one step between the steps of the main flow.
C28_PromptSettled ==
    pc = "getline" =>
        /\ previous_background_allowed = background_allowed
        /\ foregroundProcessRunning = FALSE_

\* The shell waits at its prompt for the line after "a"; SIGTSTP has been
\* delivered three times, "Exiting" is among the notifications written, the
\* handler wrote the last one, and foreground-only mode is on and notified.
C28_Witness ==
    /\ pc = "getline"
    /\ nTSTP = 3
    /\ noteBy = "handler"
    /\ Len(notes) >= 2
    /\ \E k \in 1..Len(notes) : notes[k] = "Exiting"
    /\ background_allowed = FALSE_
    /\ previous_background_allowed = FALSE_
    /\ promptInput = <<"a">>

=============================================================================
